---- MODULE Spec2Model ----
(***************************************************************************)
(* ClubOK booking bot (src/bot.py): the booking store, the table ledger,   *)
(* the per-user conversation sessions and the administrator callbacks,     *)
(* as a state machine.  One action per handler; a handler that suspends    *)
(* on an outbound send after it has changed shared state is split at that  *)
(* suspension point into a start step and a continuation kept in `tasks`.  *)
(*                                                                         *)
(* Texts are sequences of one-character strings, so that parsing           *)
(* (strptime, isdigit, int, the digit filter) is computed and text         *)
(* equality is not calendar equality.  A keyboard label is one symbol.     *)
(***************************************************************************)
EXTENDS Integers, Sequences, FiniteSets, TLC

VARIABLES
    bookings_db,   \* booking id -> booking record (a dict: the domain grows)
    tables_db,     \* the table ledger: total and available
    fsm,           \* user -> conversation session: state tag and draft data
    tasks,         \* handlers suspended on an outbound send
    clock,         \* bookings created so far
    reviews_db,    \* the stored reviews
    outbox,        \* notifications handed to Telegram, where they are recorded
    disk           \* data.json and the save_data calls, where they are tracked

vars == <<bookings_db, tables_db, fsm, tasks, clock, reviews_db, outbox, disk>>

(***************************************************************************)
(* Bounds of the explored environment.                                     *)
(***************************************************************************)
\* booking ids are the last 8 characters of a timestamp: a finite, reusable set
MaxId == 2
\* largest table count an administrator types when resizing
MaxTables == 1
\* bookings created during a run: datetime.now() advances with each
MaxClock == 2
\* handler continuations suspended on an outbound send at the same time
MaxTasks == 1
\* copies of one notification counted in the outbox
MaxSent == 2

(***************************************************************************)
(* Identities.  ADMINS is read from the environment at startup.            *)
(***************************************************************************)
Users == {1, 2, 3}
ADMINS == {1, 2}
\* the values the last eight characters of a creation timestamp take
Ids == 1..MaxId

(***************************************************************************)
(* Texts.                                                                  *)
(***************************************************************************)
Digits == {"0", "1", "2", "3", "4", "5", "6", "7", "8", "9"}

DigitVal(c) ==
    CASE c = "0" -> 0 [] c = "1" -> 1 [] c = "2" -> 2 [] c = "3" -> 3
      [] c = "4" -> 4 [] c = "5" -> 5 [] c = "6" -> 6 [] c = "7" -> 7
      [] c = "8" -> 8 [] c = "9" -> 9

\* str.isdigit(): non-empty and every character a digit
isdigit(text) == Len(text) > 0 /\ \A i \in 1..Len(text) : text[i] \in Digits

\* int(text) of a digit string
RECURSIVE int(_)
int(text) ==
    IF Len(text) = 0 THEN 0
    ELSE 10 * int(SubSeq(text, 1, Len(text) - 1)) + DigitVal(text[Len(text)])

\* ''.join(filter(str.isdigit, text))
FilterDigits(text) == SelectSeq(text, LAMBDA c : c \in Digits)

\* text.split('.')
RECURSIVE SplitDots(_)
SplitDots(text) ==
    IF \A i \in 1..Len(text) : text[i] # "."
    THEN <<text>>
    ELSE LET k == CHOOSE i \in 1..Len(text) :
                      text[i] = "." /\ \A j \in 1..(i - 1) : text[j] # "."
         IN  <<SubSeq(text, 1, k - 1)>> \o SplitDots(SubSeq(text, k + 1, Len(text)))

\* keyboard labels and commands, each one symbol
BtnCancel == <<"[cancel]">>
BtnBookCottage == <<"[book cottage]">>
BtnBookTable == <<"[book table]">>
BtnManualPhone == <<"[enter number]">>
BtnChangeTables == <<"[change tables]">>
BtnReview == <<"[review]">>
BtnSkip == <<"[skip]">>
BtnCancelBooking == <<"[cancel booking]">>
Star == "[star]"

(***************************************************************************)
(* Calendar dates.  A date is <<year, month, day>>.                        *)
(***************************************************************************)
IsLeap(y) == (y % 4 = 0 /\ y % 100 # 0) \/ y % 400 = 0

DaysInMonth(y, m) ==
    CASE m \in {1, 3, 5, 7, 8, 10, 12} -> 31
      [] m \in {4, 6, 9, 11} -> 30
      [] OTHER -> IF IsLeap(y) THEN 29 ELSE 28

RECURSIVE DaysBeforeMonth(_, _)
DaysBeforeMonth(y, m) ==
    IF m = 1 THEN 0 ELSE DaysBeforeMonth(y, m - 1) + DaysInMonth(y, m - 1)

\* date.toordinal()
toordinal(d) ==
    LET y == d[1] - 1
    IN  y * 365 + (y \div 4) - (y \div 100) + (y \div 400)
          + DaysBeforeMonth(d[1], d[2]) + d[3]

ValueError == <<>>

\* datetime.strptime(text, "%d.%m.%Y").date(): %d and %m take one or two
\* digits, %Y exactly four; anything else raises ValueError
strptime(text) ==
    LET f == SplitDots(text)
    IN  IF Len(f) # 3 THEN ValueError
        ELSE IF ~(isdigit(f[1]) /\ isdigit(f[2]) /\ isdigit(f[3])) THEN ValueError
        ELSE IF ~(Len(f[1]) \in 1..2 /\ Len(f[2]) \in 1..2 /\ Len(f[3]) = 4)
             THEN ValueError
        ELSE LET d == int(f[1])
                 m == int(f[2])
                 y == int(f[3])
             IN  IF m \in 1..12 /\ y >= 1 /\ d >= 1 /\ d <= DaysInMonth(y, m)
                 THEN <<y, m, d>>
                 ELSE ValueError

\* datetime.date.today(), fixed during a run
today == <<2026, 5, 1>>


(***************************************************************************)
(* Inputs.  A message is a text or a structured contact payload.           *)
(***************************************************************************)
\* message.text is None for a contact payload, message.contact for a text
None == <<>>
Text(t) == [kind |-> "text", text |-> t, phone_number |-> None]
Contact(p) == [kind |-> "contact", text |-> None, phone_number |-> p]
\* any other payload: neither message.text nor message.contact
Photo == [kind |-> "photo", text |-> None, phone_number |-> None]

Date1 == <<"0", "1", ".", "0", "6", ".", "2", "0", "2", "6">>      \* 01.06.2026
Date1Short == <<"1", ".", "6", ".", "2", "0", "2", "6">>           \* 1.6.2026
DatePast == <<"3", "0", ".", "0", "4", ".", "2", "0", "2", "6">>   \* yesterday
DateFar == <<"0", "2", ".", "0", "5", ".", "2", "0", "2", "7">>    \* 366 days ahead
DateBad == <<"3", "1", ".", "0", "6", ".", "2", "0", "2", "6">>    \* no such day

PhonePlus == <<"+", "7", "9", "9", "9", "1", "2", "3", "4", "5", "6", "7">>
PhoneBare == <<"7", "9", "9", "9", "1", "2", "3", "4", "5", "6", "7">>
PhoneShort == <<"+", "7", "9", "9", "9">>

\* str(n) for the table counts an administrator types
CountText(n) == IF n = 10 THEN <<"1", "0">>
                ELSE <<CHOOSE c \in Digits : DigitVal(c) = n>>
CountMessages ==
    { Text(CountText(n)) : n \in 0..MaxTables } \cup { Text(<<"x">>), Text(BtnCancel) }

ReasonMessages == { Text(<<"n", "o">>), Text(BtnCancel) }

(***************************************************************************)
(* Conversation sessions (aiogram FSM with MemoryStorage).                 *)
(***************************************************************************)
NoState == "None"

\* state.clear()
Cleared == [state |-> NoState, data |-> <<>>]

\* state.set_state(s)
set_state(sess, s) == [sess EXCEPT !.state = s]

\* state.update_data(**kv)
update_data(sess, kv) == [sess EXCEPT !.data = kv @@ sess.data]

\* F.text.regexp(r'<star> [1-5]'): the text starts with a star, a space and a
\* digit from 1 to 5
IsRating(m) ==
    /\ m.kind = "text"
    /\ Len(m.text) >= 3
    /\ m.text[1] = Star /\ m.text[2] = " "
    /\ m.text[3] \in {"1", "2", "3", "4", "5"}

\* The dispatcher offers a message to the handlers in registration order and
\* runs the first whose filters match.
Handler(st, m) ==
    IF m = Text(BtnBookCottage) THEN "book_cottage_start"
    ELSE IF st = "waiting_for_cottage_date" THEN "process_cottage_date"
    ELSE IF st = "waiting_for_cottage_guests" THEN "process_cottage_guests"
    ELSE IF m = Text(BtnBookTable) THEN "book_table_start"
    ELSE IF st = "waiting_for_table_date" THEN "process_table_date"
    ELSE IF st = "waiting_for_table_guests" THEN "process_table_guests"
    ELSE IF st = "waiting_for_contact" /\ m.kind = "contact" THEN "process_contact"
    ELSE IF st = "waiting_for_contact" THEN "process_contact_manual"
    ELSE IF m = Text(BtnReview) THEN "start_review"
    ELSE IF st = "waiting_for_review_rating" /\ IsRating(m) THEN "process_review_rating"
    ELSE IF st = "waiting_for_review_text" THEN "process_review_text"
    ELSE IF m = Text(BtnCancelBooking) THEN "cancel_booking_start"
    ELSE IF m = Text(BtnChangeTables) THEN "change_tables_start"
    ELSE IF st = "waiting_for_tables_count" THEN "process_tables_count"
    ELSE IF st = "waiting_for_admin_comment" THEN "process_admin_comment"
    ELSE "unhandled"

(***************************************************************************)
(* Notifications: the bot.send_message calls to administrators and to the  *)
(* requester of a booking.  The outbox counts the calls made, delivered or *)
(* not, in the specifications that start with recording on.                *)
(***************************************************************************)
Notice(to, kind, bid, text) == [to |-> to, kind |-> kind, bid |-> bid, text |-> text]

Unrecorded == [on |-> FALSE, sent |-> <<>>]
Recorded == [on |-> TRUE, sent |-> <<>>]

\* one bot.send_message call for each notice of N
send_all(box, N) ==
    IF ~box.on THEN box
    ELSE [box EXCEPT !.sent =
            [n \in DOMAIN box.sent \cup N |->
                IF n \notin DOMAIN box.sent THEN 1
                ELSE IF n \in N /\ box.sent[n] < MaxSent THEN box.sent[n] + 1
                ELSE box.sent[n]]]

send_message(box, n) == send_all(box, {n})

\* notify_admins: a send to every administrator, each in its own try
notify_admins(box, kind, bid) ==
    send_all(box, { Notice(a, kind, bid, None) : a \in ADMINS })

(***************************************************************************)
(* Persistence: save_data(data) writes the three stores to data.json.      *)
(* `asked` is the data of the last save_data call, `data` what the file    *)
(* holds, `writable` whether a write succeeds.  The file is tracked in the *)
(* specifications that start with tracking on.                             *)
(***************************************************************************)
Untracked == [on |-> FALSE, writable |-> TRUE, data |-> <<>>, asked |-> <<>>]
Tracked(data) == [on |-> TRUE, writable |-> TRUE, data |-> data, asked |-> data]

\* what the handlers pass to save_data after their assignments
Memory == [bookings |-> bookings_db', tables |-> tables_db', reviews |-> reviews_db']

\* save_data with a body that does nothing
save_data_skip(d, data) == d

\* lines 83-87: the write happens if the file can be written
save_data(d, data) ==
    IF ~d.on THEN d
    ELSE [d EXCEPT !.asked = data, !.data = IF d.writable THEN data ELSE @]

\* save_data without its try/except: a failed write raises in the caller
save_raises_unwritable(d) == d.on /\ ~d.writable

\* lines 86-87: save_data catches every exception of the write, so the
\* call never raises in the handler
save_raises(d) == FALSE

\* the file becomes unwritable, or writable again
set_writable(w) ==
    /\ disk.on
    /\ disk.writable # w
    /\ disk' = [disk EXCEPT !.writable = w]
    /\ UNCHANGED <<bookings_db, tables_db, fsm, tasks, clock, reviews_db, outbox>>

(***************************************************************************)
(* Initial state: load_data() without a data file.                         *)
(***************************************************************************)
load_data ==
    [bookings |-> <<>>, tables |-> [available |-> 10, total |-> 10], reviews |-> <<>>]

Init ==
    /\ bookings_db = load_data.bookings
    /\ tables_db = load_data.tables
    /\ reviews_db = load_data.reviews
    /\ fsm = [u \in Users |-> Cleared]
    /\ tasks = {}
    /\ clock = 0
    /\ outbox = Unrecorded
    /\ disk = Untracked

(***************************************************************************)
(* Helpers of the handlers.                                                *)
(***************************************************************************)
\* the stored bookings of one type and status
BookingsWith(type, status) ==
    { id \in DOMAIN bookings_db :
        bookings_db[id].type = type /\ bookings_db[id].status = status }

is_date_available(booking_type, date) ==
    IF booking_type = "table"
    THEN tables_db.available > 0
    ELSE LET booked_dates ==
                 { bookings_db[id].date : id \in BookingsWith("cottage", "confirmed") }
         IN  date \notin booked_dates

\* A conversation step ends in a reply.  `sent` is whether that outbound send
\* returned: a send that raises lands in the handler's except branch, which
\* clears the session.
Replied(u, sess, sent) ==
    fsm' = [fsm EXCEPT ![u] = IF sent THEN sess ELSE Cleared]

\* What a date step answers to a message.  A contact payload has no text:
\* strptime(None) raises TypeError, which only the outer except catches.
DateAnswer(booking_type, m) ==
    IF m.text = BtnCancel THEN "cancelled"
    ELSE IF m.kind # "text" THEN "fault"
    ELSE LET booking_date == strptime(m.text)
         IN  IF booking_date = ValueError THEN "bad_format"
             ELSE IF toordinal(booking_date) < toordinal(today) THEN "past"
             ELSE IF toordinal(booking_date) - toordinal(today) > 365 THEN "too_far"
             ELSE IF booking_type = "cottage" /\ ~is_date_available("cottage", m.text)
             THEN "unavailable"
             ELSE "accepted"

\* the date step of either flow, lines 241-274 and 330-359
DateStep(u, m, sent, booking_type, next_state) ==
    LET answer == DateAnswer(booking_type, m)
    IN  IF answer \in {"cancelled", "fault"} THEN Replied(u, Cleared, sent)
        ELSE IF answer = "accepted"
        THEN Replied(u, set_state(update_data(fsm[u], [booking_date |-> m.text]),
                                  next_state), sent)
        ELSE Replied(u, fsm[u], sent)

\* What a party-size step answers, lines 280-293 and 365-378
GuestsAnswer(m, bound) ==
    IF m.text = BtnCancel THEN "cancelled"
    ELSE IF m.kind # "text" THEN "fault"
    ELSE IF ~isdigit(m.text) THEN "not_a_number"
    ELSE IF int(m.text) < 1 \/ int(m.text) > bound THEN "out_of_range"
    ELSE "accepted"

\* the party-size step with a booking_type that is kept once the draft
\* holds one
GuestsStepKeepType(u, m, sent, booking_type, bound) ==
    LET answer == GuestsAnswer(m, bound)
    IN  IF answer \in {"cancelled", "fault"} THEN Replied(u, Cleared, sent)
        ELSE IF answer = "accepted"
        THEN Replied(u, set_state(update_data(fsm[u],
                            [guests |-> int(m.text),
                             booking_type |-> IF "booking_type" \in DOMAIN fsm[u].data
                                              THEN fsm[u].data.booking_type
                                              ELSE booking_type]),
                                  "waiting_for_contact"), sent)
        ELSE Replied(u, fsm[u], sent)

GuestsStep(u, m, sent, booking_type, bound) ==
    LET answer == GuestsAnswer(m, bound)
    IN  IF answer \in {"cancelled", "fault"} THEN Replied(u, Cleared, sent)
        ELSE IF answer = "accepted"
        THEN Replied(u, set_state(update_data(fsm[u], [guests |-> int(m.text),
                                                       booking_type |-> booking_type]),
                                  "waiting_for_contact"), sent)
        ELSE Replied(u, fsm[u], sent)

(***************************************************************************)
(* Booking conversation.                                                   *)
(***************************************************************************)
book_cottage_start(u, sent) ==
    /\ Handler(fsm[u].state, Text(BtnBookCottage)) = "book_cottage_start"
    /\ Replied(u, set_state(fsm[u], "waiting_for_cottage_date"), sent)
    /\ UNCHANGED <<bookings_db, tables_db, tasks, clock, reviews_db, outbox, disk>>

process_cottage_date(u, m, sent) ==
    /\ Handler(fsm[u].state, m) = "process_cottage_date"
    /\ DateStep(u, m, sent, "cottage", "waiting_for_cottage_guests")
    /\ UNCHANGED <<bookings_db, tables_db, tasks, clock, reviews_db, outbox, disk>>

process_cottage_guests(u, m, sent) ==
    /\ Handler(fsm[u].state, m) = "process_cottage_guests"
    /\ GuestsStep(u, m, sent, "cottage", 20)
    /\ UNCHANGED <<bookings_db, tables_db, tasks, clock, reviews_db, outbox, disk>>

book_table_start(u, sent) ==
    /\ Handler(fsm[u].state, Text(BtnBookTable)) = "book_table_start"
    /\ IF tables_db.available <= 0
       THEN Replied(u, fsm[u], sent)
       ELSE Replied(u, set_state(fsm[u], "waiting_for_table_date"), sent)
    /\ UNCHANGED <<bookings_db, tables_db, tasks, clock, reviews_db, outbox, disk>>

process_table_date(u, m, sent) ==
    /\ Handler(fsm[u].state, m) = "process_table_date"
    /\ DateStep(u, m, sent, "table", "waiting_for_table_guests")
    /\ UNCHANGED <<bookings_db, tables_db, tasks, clock, reviews_db, outbox, disk>>

process_table_guests(u, m, sent) ==
    /\ Handler(fsm[u].state, m) = "process_table_guests"
    /\ GuestsStep(u, m, sent, "table", 10)
    /\ UNCHANGED <<bookings_db, tables_db, tasks, clock, reviews_db, outbox, disk>>


(***************************************************************************)
(* Booking creation.                                                       *)
(***************************************************************************)
\* a handler suspended on an outbound send, with what it still holds: the
\* sender, the booking id and the requester it is about to notify
Task(h, u, bid, to) == [h |-> h, user |-> u, bid |-> bid, to |-> to]

Spawn(t) ==
    /\ Cardinality(tasks) < MaxTasks
    /\ t \notin tasks
    /\ tasks' = tasks \cup {t}

\* the pending bookings of the same requester, date text and type, lines 440-444
ExistingBooking(u, user_data) ==
    { id \in DOMAIN bookings_db :
        /\ bookings_db[id].user_id = u
        /\ bookings_db[id].date = user_data.booking_date
        /\ bookings_db[id].type = user_data.booking_type
        /\ bookings_db[id].status = "pending" }

\* What _save_booking does with the session's draft.
SaveAnswer(u) ==
    IF ~({"booking_date", "booking_type", "guests"} \subseteq DOMAIN fsm[u].data)
    THEN "fault"
    ELSE IF ExistingBooking(u, fsm[u].data) # {} THEN "DuplicatePending"
    ELSE "created"

\* _save_booking up to its first suspension.  booking_id is the last eight
\* characters of the creation timestamp, whatever the store already holds.
save_booking(u, phone, booking_id) ==
    LET user_data == fsm[u].data
        answer == SaveAnswer(u)
    IN  IF answer = "fault"
        THEN /\ fsm' = [fsm EXCEPT ![u] = Cleared]
             /\ UNCHANGED <<bookings_db, tables_db, tasks, clock, reviews_db, outbox, disk>>
        ELSE IF answer = "DuplicatePending"
        THEN /\ Spawn(Task("_save_booking", u, 0, 0))
             /\ UNCHANGED <<bookings_db, tables_db, fsm, clock, reviews_db, outbox, disk>>
        ELSE LET booking_details ==
                     [type |-> user_data.booking_type,
                      date |-> user_data.booking_date,
                      guests |-> user_data.guests,
                      user_id |-> u,
                      phone |-> phone,
                      status |-> "pending",
                      created_at |-> clock + 1]
             IN  /\ clock < MaxClock
                 /\ clock' = clock + 1
                 /\ bookings_db' = (booking_id :> booking_details) @@ bookings_db
                 /\ UNCHANGED <<tables_db, reviews_db>>
                 /\ disk' = save_data(disk, Memory)
                 /\ IF save_raises(disk)
                    THEN /\ fsm' = [fsm EXCEPT ![u] = Cleared]
                         /\ UNCHANGED <<tasks, outbox>>
                    ELSE /\ outbox' = notify_admins(outbox, "new_booking", booking_id)
                         /\ Spawn(Task("_save_booking", u, booking_id, 0))
                         /\ UNCHANGED fsm

\* after the duplicate reply, or after the administrators were notified of
\* the new booking: state.clear()
save_booking_resume(t) ==
    /\ t \in tasks /\ t.h = "_save_booking"
    /\ tasks' = tasks \ {t}
    /\ fsm' = [fsm EXCEPT ![t.user] = Cleared]
    /\ UNCHANGED <<bookings_db, tables_db, clock, reviews_db, outbox, disk>>

process_contact(u, m, booking_id) ==
    /\ Handler(fsm[u].state, m) = "process_contact"
    /\ save_booking(u, m.phone_number, booking_id)

\* What the manual contact step answers, lines 413-427
ContactAnswer(m) ==
    IF m.text = BtnCancel THEN "cancelled"
    ELSE IF m.text = BtnManualPhone THEN "prompt"
    ELSE IF m.kind # "text" THEN "fault"
    ELSE IF Len(FilterDigits(m.text)) < 11 THEN "too_short"
    ELSE "accepted"

process_contact_manual(u, m, sent, booking_id) ==
    /\ Handler(fsm[u].state, m) = "process_contact_manual"
    /\ LET answer == ContactAnswer(m)
       IN  IF answer = "accepted"
           THEN save_booking(u, FilterDigits(m.text), booking_id)
           ELSE /\ Replied(u, IF answer \in {"cancelled", "fault"} THEN Cleared
                              ELSE fsm[u], sent)
                /\ UNCHANGED <<bookings_db, tables_db, tasks, clock, reviews_db, outbox, disk>>

(***************************************************************************)
(* Reviews.                                                                *)
(***************************************************************************)
\* lines 488-491
has_confirmed_bookings(u) ==
    \E id \in DOMAIN bookings_db :
        bookings_db[id].user_id = u /\ bookings_db[id].status = "confirmed"

start_review(u, sent) ==
    /\ Handler(fsm[u].state, Text(BtnReview)) = "start_review"
    /\ IF ~has_confirmed_bookings(u)
       THEN Replied(u, fsm[u], sent)
       ELSE Replied(u, set_state(fsm[u], "waiting_for_review_rating"), sent)
    /\ UNCHANGED <<bookings_db, tables_db, tasks, clock, reviews_db, outbox, disk>>

\* message.text.split()[1]: the second whitespace-separated word
SecondWord(text) ==
    LET rest == SubSeq(text, 3, Len(text))
        stops == { i \in 1..Len(rest) : rest[i] = " " }
        end == IF stops = {} THEN Len(rest)
               ELSE (CHOOSE i \in stops : \A j \in stops : i <= j) - 1
    IN  SubSeq(rest, 1, end)

\* int() raises ValueError on a word that is not a number: line 507
process_review_rating(u, m, sent) ==
    /\ Handler(fsm[u].state, m) = "process_review_rating"
    /\ IF ~isdigit(SecondWord(m.text))
       THEN fsm' = [fsm EXCEPT ![u] = Cleared]
       ELSE Replied(u, set_state(update_data(fsm[u], [rating |-> int(SecondWord(m.text))]),
                                 "waiting_for_review_text"), sent)
    /\ UNCHANGED <<bookings_db, tables_db, tasks, clock, reviews_db, outbox, disk>>

\* What the review-text step answers, lines 520-531
ReviewTextAnswer(u, m) ==
    IF m.text = BtnCancel THEN "cancelled"
    ELSE IF "rating" \notin DOMAIN fsm[u].data THEN "fault"
    ELSE "saved"

\* review_id is computed like booking_id; the session is cleared before the
\* thanks are sent, and the administrators are notified after them
process_review_text(u, m, sent, review_id) ==
    /\ Handler(fsm[u].state, m) = "process_review_text"
    /\ fsm' = [fsm EXCEPT ![u] = Cleared]
    /\ UNCHANGED <<bookings_db, tables_db, tasks, clock>>
    /\ IF ReviewTextAnswer(u, m) = "saved"
       THEN /\ reviews_db' =
                 (review_id :> [user_id |-> u,
                                rating |-> fsm[u].data.rating,
                                text |-> IF m.text = BtnSkip THEN <<>> ELSE m.text])
                 @@ reviews_db
            /\ disk' = save_data(disk, Memory)
            /\ outbox' = IF sent /\ ~save_raises(disk)
                         THEN notify_admins(outbox, "new_review", review_id)
                         ELSE outbox
       ELSE UNCHANGED <<reviews_db, outbox, disk>>

(***************************************************************************)
(* Table capacity.                                                         *)
(***************************************************************************)
\* What the cancel-booking button answers, lines 611-628
CancelStartAnswer(u) ==
    IF u \notin ADMINS THEN "ignored"
    ELSE IF \A id \in DOMAIN bookings_db : bookings_db[id].status # "confirmed"
    THEN "none_active"
    ELSE "listed"

\* the handler has no session and only replies
cancel_booking_start(u) ==
    /\ Handler(fsm[u].state, Text(BtnCancelBooking)) = "cancel_booking_start"
    /\ UNCHANGED vars

\* What the resize button answers, lines 636-642
ChangeTablesAnswer(u) ==
    IF u \notin ADMINS THEN "ignored" ELSE "prompted"

change_tables_start(u, sent) ==
    /\ Handler(fsm[u].state, Text(BtnChangeTables)) = "change_tables_start"
    /\ IF ChangeTablesAnswer(u) = "ignored"
       THEN UNCHANGED fsm
       ELSE Replied(u, set_state(fsm[u], "waiting_for_tables_count"), sent)
    /\ UNCHANGED <<bookings_db, tables_db, tasks, clock, reviews_db, outbox, disk>>

\* line 661
booked_tables == tables_db.total - tables_db.available

\* What the table-count step answers, lines 651-664
TablesCountAnswer(m) ==
    IF m.kind # "text" THEN "fault"
    ELSE IF ~isdigit(m.text) THEN "not_a_number"
    ELSE IF int(m.text) < 1 THEN "InvalidCapacity"
    ELSE IF int(m.text) < booked_tables THEN "CapacityBelowCommitted"
    ELSE "resized"

process_tables_count(u, m, sent) ==
    /\ Handler(fsm[u].state, m) = "process_tables_count"
    /\ LET answer == TablesCountAnswer(m)
       IN  IF answer = "resized"
           THEN /\ tables_db' = [total |-> int(m.text),
                                 available |-> int(m.text) - booked_tables]
                /\ UNCHANGED <<bookings_db, reviews_db>>
                /\ disk' = save_data(disk, Memory)
                /\ Replied(u, Cleared, sent)
           ELSE /\ Replied(u, IF answer = "fault" THEN Cleared ELSE fsm[u], sent)
                /\ UNCHANGED <<bookings_db, tables_db, reviews_db, disk>>
    /\ UNCHANGED <<tasks, clock, outbox>>


(***************************************************************************)
(* Administrator callbacks.  Every callback query passes                   *)
(* admin_check_middleware first.  A callback that answers and returns      *)
(* changes nothing.                                                        *)
(***************************************************************************)
admin_check_middleware(u) == u \in ADMINS

\* the capacity check of line 695 written as "< 0"
NoFreeTableBelowZero(booking) == booking.type = "table" /\ tables_db.available < 0

\* line 695
NoFreeTable(booking) == booking.type = "table" /\ tables_db.available <= 0

\* process_confirm without the status check of lines 691-693
ConfirmAnswerAnyStatus(u, booking_id) ==
    IF ~admin_check_middleware(u) THEN "AccessDenied"
    ELSE IF booking_id \notin DOMAIN bookings_db THEN "NotFound"
    ELSE IF NoFreeTable(bookings_db[booking_id]) THEN "InsufficientCapacity"
    ELSE "confirmed"

\* What process_confirm answers, lines 166-170 and 684-697
ConfirmAnswer(u, booking_id) ==
    IF ~admin_check_middleware(u) THEN "AccessDenied"
    ELSE IF booking_id \notin DOMAIN bookings_db THEN "NotFound"
    ELSE IF bookings_db[booking_id].status # "pending" THEN "AlreadyDecided"
    ELSE IF NoFreeTable(bookings_db[booking_id]) THEN "InsufficientCapacity"
    ELSE "confirmed"

\* a confirmation that leaves the ledger alone
ReserveNothing(booking) == tables_db

\* reserve(): lines 700-701
Reserve(booking) ==
    IF booking.type = "table"
    THEN [tables_db EXCEPT !.available = @ - 1]
    ELSE tables_db

\* process_confirm up to its first suspension
process_confirm(u, booking_id) ==
    IF ConfirmAnswer(u, booking_id) = "confirmed"
    THEN LET booking == bookings_db[booking_id]
         IN  /\ bookings_db' = [bookings_db EXCEPT ![booking_id].status = "confirmed"]
             /\ tables_db' = Reserve(booking)
             /\ UNCHANGED <<fsm, clock, reviews_db, outbox>>
             /\ disk' = save_data(disk, Memory)
             /\ IF save_raises(disk)
                THEN UNCHANGED tasks
                ELSE Spawn(Task("process_confirm", u, booking_id, booking.user_id))
    ELSE UNCHANGED vars

\* after the edit of the decision message: the requester's notification
\* (skipped when the edit raised) and the callback's answer
process_confirm_resume(t, edited) ==
    /\ t \in tasks /\ t.h = "process_confirm"
    /\ tasks' = tasks \ {t}
    /\ outbox' = IF edited
                 THEN send_message(outbox, Notice(t.to, "confirmed", t.bid, None))
                 ELSE outbox
    /\ UNCHANGED <<bookings_db, tables_db, fsm, clock, reviews_db, disk>>

\* What process_reject answers, lines 166-170 and 729-738
RejectAnswer(u, booking_id) ==
    IF ~admin_check_middleware(u) THEN "AccessDenied"
    ELSE IF booking_id \notin DOMAIN bookings_db THEN "NotFound"
    ELSE IF bookings_db[booking_id].status # "pending" THEN "AlreadyDecided"
    ELSE "rejected"

\* process_reject up to its first suspension
process_reject(u, booking_id) ==
    IF RejectAnswer(u, booking_id) = "rejected"
    THEN /\ bookings_db' = [bookings_db EXCEPT ![booking_id].status = "rejected"]
         /\ UNCHANGED <<tables_db, fsm, clock, reviews_db, outbox>>
         /\ disk' = save_data(disk, Memory)
         /\ IF save_raises(disk)
            THEN UNCHANGED tasks
            ELSE Spawn(Task("process_reject", u, booking_id,
                            bookings_db[booking_id].user_id))
    ELSE UNCHANGED vars

\* the reason prompt: lines 747-748 and 771-772
AwaitComment(sess, booking_id) ==
    update_data(set_state(sess, "waiting_for_admin_comment"),
                [booking_id |-> booking_id])

\* after the edit of the decision message: the reason prompt, unless the
\* edit raised
process_reject_resume(t, edited) ==
    /\ t \in tasks /\ t.h = "process_reject"
    /\ tasks' = tasks \ {t}
    /\ fsm' = IF edited
              THEN [fsm EXCEPT ![t.user] = AwaitComment(@, t.bid)]
              ELSE fsm
    /\ UNCHANGED <<bookings_db, tables_db, clock, reviews_db, outbox, disk>>

\* process_cancel without the not-found return of lines 763-765: an unknown
\* id goes on to the reason prompt
CancelAnswerUnknownPrompted(u, booking_id) ==
    IF ~admin_check_middleware(u) THEN "AccessDenied"
    ELSE IF booking_id \notin DOMAIN bookings_db THEN "prompted"
    ELSE IF bookings_db[booking_id].status # "confirmed" THEN "AlreadyDecided"
    ELSE "prompted"

\* What process_cancel answers, lines 166-170 and 760-769
CancelAnswer(u, booking_id) ==
    IF ~admin_check_middleware(u) THEN "AccessDenied"
    ELSE IF booking_id \notin DOMAIN bookings_db THEN "NotFound"
    ELSE IF bookings_db[booking_id].status # "confirmed" THEN "AlreadyDecided"
    ELSE "prompted"

process_cancel(u, booking_id) ==
    IF CancelAnswer(u, booking_id) = "prompted"
    THEN /\ fsm' = [fsm EXCEPT ![u] = AwaitComment(@, booking_id)]
         /\ UNCHANGED <<bookings_db, tables_db, tasks, clock, reviews_db, outbox, disk>>
    ELSE UNCHANGED vars

\* the reason step without the status check of line 821
CommentAnswerAnyStatus(u) ==
    IF "booking_id" \notin DOMAIN fsm[u].data THEN "fault"
    ELSE IF fsm[u].data.booking_id \notin DOMAIN bookings_db THEN "NotFound"
    ELSE "rejected"

\* What show_booking_info answers, lines 166-170 and 783-807
InfoAnswer(u, booking_id) ==
    IF ~admin_check_middleware(u) THEN "AccessDenied"
    ELSE IF booking_id \notin DOMAIN bookings_db THEN "NotFound"
    ELSE "shown"

\* the handler only replies
show_booking_info(u, booking_id) ==
    /\ InfoAnswer(u, booking_id) \in {"AccessDenied", "NotFound", "shown"}
    /\ UNCHANGED vars

\* What the reason step does with the booking its session names,
\* lines 816-825 and 846-847
CommentAnswer(u) ==
    IF "booking_id" \notin DOMAIN fsm[u].data THEN "fault"
    ELSE IF fsm[u].data.booking_id \notin DOMAIN bookings_db THEN "NotFound"
    ELSE IF bookings_db[fsm[u].data.booking_id].status # "rejected" THEN "rejected"
    ELSE "already_rejected"

\* release(): lines 822-823
Release(booking) ==
    IF booking.type = "table"
    THEN [tables_db EXCEPT !.available = @ + 1]
    ELSE tables_db

\* process_admin_comment up to its first suspension
process_admin_comment(u, m) ==
    /\ Handler(fsm[u].state, m) = "process_admin_comment"
    /\ UNCHANGED <<clock, reviews_db>>
    /\ LET answer == CommentAnswer(u)
           booking_id == fsm[u].data.booking_id
       IN  IF answer = "fault"
           THEN /\ fsm' = [fsm EXCEPT ![u] = Cleared]
                /\ UNCHANGED <<bookings_db, tables_db, tasks, outbox, disk>>
           ELSE IF answer = "NotFound"
           THEN /\ Spawn(Task("process_admin_comment", u, booking_id, 0))
                /\ UNCHANGED <<bookings_db, tables_db, fsm, outbox, disk>>
           ELSE /\ IF answer = "rejected"
                   THEN /\ tables_db' = Release(bookings_db[booking_id])
                        /\ bookings_db' =
                              [bookings_db EXCEPT ![booking_id].status = "rejected"]
                        /\ disk' = save_data(disk, Memory)
                   ELSE UNCHANGED <<bookings_db, tables_db, disk>>
                /\ IF answer = "rejected" /\ save_raises(disk)
                   THEN /\ fsm' = [fsm EXCEPT ![u] = Cleared]
                        /\ UNCHANGED <<tasks, outbox>>
                   ELSE /\ outbox' = send_message(outbox,
                                        Notice(bookings_db[booking_id].user_id,
                                               "rejected", booking_id, m.text))
                        /\ Spawn(Task("process_admin_comment", u, booking_id,
                                      bookings_db[booking_id].user_id))
                        /\ UNCHANGED fsm

\* after the requester's notification and the administrator's reply:
\* state.clear()
process_admin_comment_resume(t) ==
    /\ t \in tasks /\ t.h = "process_admin_comment"
    /\ tasks' = tasks \ {t}
    /\ fsm' = [fsm EXCEPT ![t.user] = Cleared]
    /\ UNCHANGED <<bookings_db, tables_db, clock, reviews_db, outbox, disk>>

(***************************************************************************)
(* The dispatcher.                                                         *)
(***************************************************************************)
\* a message that no handler's filters match is dropped
unhandled(u, m) ==
    /\ Handler(fsm[u].state, m) = "unhandled"
    /\ UNCHANGED vars

\* What the handler in charge of message m answers to user u
StepAnswer(u, m) ==
    LET h == Handler(fsm[u].state, m)
    IN  CASE h = "process_cottage_date" -> DateAnswer("cottage", m)
          [] h = "process_table_date" -> DateAnswer("table", m)
          [] h = "process_cottage_guests" -> GuestsAnswer(m, 20)
          [] h = "process_table_guests" -> GuestsAnswer(m, 10)
          [] h = "process_contact_manual" -> ContactAnswer(m)
          [] h = "process_review_text" -> ReviewTextAnswer(u, m)
          [] h = "process_tables_count" -> TablesCountAnswer(m)
          [] h = "process_admin_comment" -> CommentAnswer(u)
          [] OTHER -> h

\* one message m of user u handled up to the handler's first suspension;
\* `sent` is whether the reply could be sent and id what the clock yields
Message(u, m, sent, id) ==
    \/ m = Text(BtnBookCottage) /\ book_cottage_start(u, sent)
    \/ process_cottage_date(u, m, sent)
    \/ process_cottage_guests(u, m, sent)
    \/ m = Text(BtnBookTable) /\ book_table_start(u, sent)
    \/ process_table_date(u, m, sent)
    \/ process_table_guests(u, m, sent)
    \/ process_contact(u, m, id)
    \/ process_contact_manual(u, m, sent, id)
    \/ m = Text(BtnReview) /\ start_review(u, sent)
    \/ process_review_rating(u, m, sent)
    \/ process_review_text(u, m, sent, id)
    \/ m = Text(BtnCancelBooking) /\ cancel_booking_start(u)
    \/ m = Text(BtnChangeTables) /\ change_tables_start(u, sent)
    \/ process_tables_count(u, m, sent)
    \/ process_admin_comment(u, m)
    \/ unhandled(u, m)

(***************************************************************************)
(* The program under an environment: R are the identities that converse,   *)
(* A the identities that press decision buttons and type counts and        *)
(* reasons, Z the identities that press the resize button, and the message *)
(* sets are what they type at each step.  Booking and resize buttons are   *)
(* pressed by an idle user when `restart` is FALSE, and in any state when  *)
(* it is TRUE.                                                             *)
(***************************************************************************)
Conversation(R, restart, dates, guests, contacts) ==
    \/ \E u \in R, sent \in BOOLEAN :
          /\ restart \/ fsm[u].state = NoState
          /\ book_cottage_start(u, sent)
    \/ \E u \in R, m \in dates, sent \in BOOLEAN : process_cottage_date(u, m, sent)
    \/ \E u \in R, m \in guests, sent \in BOOLEAN : process_cottage_guests(u, m, sent)
    \/ \E u \in R, sent \in BOOLEAN :
          /\ restart \/ fsm[u].state = NoState
          /\ book_table_start(u, sent)
    \/ \E u \in R, m \in dates, sent \in BOOLEAN : process_table_date(u, m, sent)
    \/ \E u \in R, m \in guests, sent \in BOOLEAN : process_table_guests(u, m, sent)
    \/ \E u \in R, m \in contacts, id \in Ids : process_contact(u, m, id)
    \/ \E u \in R, m \in contacts, sent \in BOOLEAN, id \in Ids :
          process_contact_manual(u, m, sent, id)
    \/ \E t \in tasks : save_booking_resume(t)

Administration(A, Z, restart, counts, reasons) ==
    \/ \E u \in Z, sent \in BOOLEAN :
          /\ restart \/ fsm[u].state = NoState
          /\ change_tables_start(u, sent)
    \/ \E u \in A, m \in counts, sent \in BOOLEAN : process_tables_count(u, m, sent)
    \/ \E u \in A, id \in Ids : process_confirm(u, id)
    \/ \E t \in tasks, edited \in BOOLEAN : process_confirm_resume(t, edited)
    \/ \E u \in A, id \in Ids : process_reject(u, id)
    \/ \E t \in tasks, edited \in BOOLEAN : process_reject_resume(t, edited)
    \/ \E u \in A, id \in Ids : process_cancel(u, id)
    \/ \E u \in A, m \in reasons : process_admin_comment(u, m)
    \/ \E t \in tasks : process_admin_comment_resume(t)

(***************************************************************************)
(* Spec: one requester who types one calendar date in two ways and presses *)
(* the administrator buttons as well, and two administrators, the first of *)
(* whom resizes.                                                           *)
(***************************************************************************)
SpecDates == {Text(Date1), Text(Date1Short), Text(DatePast), Text(BtnCancel)}
SpecGuests == {Text(<<"0">>), Text(<<"1", "0">>), Text(BtnCancel)}
SpecContacts == {Text(PhonePlus), Text(PhoneShort), Text(BtnCancel), Contact(PhoneBare)}

Next ==
    \/ Conversation({3}, FALSE, SpecDates, SpecGuests, SpecContacts)
    \/ Administration(Users, {1, 3}, FALSE, CountMessages, ReasonMessages)

Spec == Init /\ [][Next]_vars

(***************************************************************************)
(* SpecDesk: the administrators' desk.  load_data() finds a data file with *)
(* one pending table booking of requester 3; nobody creates a booking, so  *)
(* id 2 stays unknown.  Every identity presses the decision and info       *)
(* buttons and the cancel-booking button and types counts and reasons, and *)
(* the outbox records the notifications.                                   *)
(***************************************************************************)
DeskBooking ==
    [type |-> "table", date |-> Date1, guests |-> 2, user_id |-> 3,
     phone |-> PhoneBare, status |-> "pending", created_at |-> 1]

load_data_desk ==
    [bookings |-> 1 :> DeskBooking, tables |-> [available |-> 10, total |-> 10],
     reviews |-> <<>>]

InitDesk ==
    /\ bookings_db = load_data_desk.bookings
    /\ tables_db = load_data_desk.tables
    /\ reviews_db = load_data_desk.reviews
    /\ fsm = [u \in Users |-> Cleared]
    /\ tasks = {}
    /\ clock = 1
    /\ outbox = Recorded
    /\ disk = Untracked

DeskCounts == {Text(<<"1">>), Text(BtnCancel)}

NextDesk ==
    \/ Administration(Users, Users, TRUE, DeskCounts, ReasonMessages)
    \/ \E u \in Users, id \in Ids : show_booking_info(u, id)
    \/ \E u \in Users : cancel_booking_start(u)

SpecDesk == InitDesk /\ [][NextDesk]_vars

(***************************************************************************)
(* SpecGuest: a returning guest.  load_data() finds a data file with one   *)
(* confirmed table booking of requester 3, who may therefore review.  The  *)
(* requester sends texts, photos and the cancel text at every step of the  *)
(* booking and review conversations and what they create gets id 2;        *)
(* administrator 1 decides, cancels, resizes and types the cancel text.    *)
(***************************************************************************)
GuestBooking == [DeskBooking EXCEPT !.status = "confirmed"]

load_data_guest ==
    [bookings |-> 1 :> GuestBooking, tables |-> [available |-> 9, total |-> 10],
     reviews |-> <<>>]

InitGuest ==
    /\ bookings_db = load_data_guest.bookings
    /\ tables_db = load_data_guest.tables
    /\ reviews_db = load_data_guest.reviews
    /\ fsm = [u \in Users |-> Cleared]
    /\ tasks = {}
    /\ clock = 1
    /\ outbox = Unrecorded
    /\ disk = Untracked

RatingText(n) == <<Star, " ">> \o n

\* BookingStates, lines 104-110
BookingSteps ==
    {"waiting_for_cottage_date", "waiting_for_table_date",
     "waiting_for_cottage_guests", "waiting_for_table_guests", "waiting_for_contact"}

ReviewSteps == {"waiting_for_review_rating", "waiting_for_review_text"}

\* what the requester sends at each step, besides the buttons
GuestInputs(st) ==
    IF st \in {"waiting_for_cottage_date", "waiting_for_table_date"}
    THEN {Text(Date1), Text(DatePast), Photo}
    ELSE IF st \in {"waiting_for_cottage_guests", "waiting_for_table_guests"}
    THEN {Text(<<"2">>), Text(<<"0">>), Photo}
    ELSE IF st = "waiting_for_contact"
    THEN {Text(PhonePlus), Text(PhoneShort), Photo, Contact(PhoneBare)}
    ELSE IF st = "waiting_for_review_rating"
    THEN {Text(RatingText(<<"5">>)), Text(RatingText(<<"5", "!">>))}
    ELSE IF st = "waiting_for_review_text"
    THEN {Text(<<"o", "k">>), Text(BtnSkip)}
    ELSE {}

GuestButtons ==
    {Text(BtnCancel), Text(BtnBookCottage), Text(BtnBookTable), Text(BtnReview)}

DeskMessages ==
    {Text(BtnCancel), Text(<<"9">>), Text(BtnChangeTables), Text(BtnCancelBooking)}

\* what identity u sends in the current state
GuestSends(u) ==
    IF u = 3 THEN GuestInputs(fsm[u].state) \cup GuestButtons ELSE DeskMessages

GuestMessages ==
    UNION { GuestInputs(st) : st \in BookingSteps \cup ReviewSteps }
        \cup GuestButtons \cup DeskMessages

NextGuest ==
    \/ \E u \in {1, 3}, m \in GuestMessages, sent \in BOOLEAN :
          m \in GuestSends(u) /\ Message(u, m, sent, 2)
    \/ \E t \in tasks : save_booking_resume(t)
    \/ \E id \in Ids : process_confirm(1, id)
    \/ \E t \in tasks, edited \in BOOLEAN : process_confirm_resume(t, edited)
    \/ \E id \in Ids : process_cancel(1, id)
    \/ \E t \in tasks : process_admin_comment_resume(t)

SpecGuest == InitGuest /\ [][NextGuest]_vars

(***************************************************************************)
(* SpecFlows: one requester who presses the booking buttons in any state,  *)
(* so that a flow is abandoned with its draft still in the session, types  *)
(* party sizes on both sides of the two bounds, and gives the phone as     *)
(* text or as a contact payload, with or without a plus sign.              *)
(***************************************************************************)
FlowDates == {Text(Date1), Text(BtnCancel)}
FlowGuests == {Text(<<"5">>), Text(<<"1", "5">>), Text(<<"2", "5">>)}
FlowContacts ==
    {Text(PhonePlus), Text(PhoneShort), Contact(PhoneBare), Contact(PhonePlus),
     Contact(PhoneShort)}

NextFlows == Conversation({3}, TRUE, FlowDates, FlowGuests, FlowContacts)

SpecFlows == Init /\ [][NextFlows]_vars

(***************************************************************************)
(* SpecDisk: the desk with a data file that becomes unwritable and         *)
(* writable again at any moment.  load_data() finds one pending table      *)
(* booking of requester 3, who books once more and reviews once a booking  *)
(* of theirs is confirmed; administrator 1 decides, cancels and resizes.   *)
(* Notifications and save_data calls are tracked.                          *)
(***************************************************************************)
InitDisk ==
    /\ bookings_db = load_data_desk.bookings
    /\ tables_db = load_data_desk.tables
    /\ reviews_db = load_data_desk.reviews
    /\ fsm = [u \in Users |-> Cleared]
    /\ tasks = {}
    /\ clock = 1
    /\ outbox = Recorded
    /\ disk = Tracked(load_data_desk)

\* the requester books a table, which gets id 2, and reviews; the
\* administrator decides, cancels with a reason and resizes
NextDisk ==
    \/ \E w \in BOOLEAN : set_writable(w)
    \/ \E sent \in BOOLEAN : fsm[3].state = NoState /\ book_table_start(3, sent)
    \/ \E sent \in BOOLEAN : process_table_date(3, Text(Date1), sent)
    \/ \E sent \in BOOLEAN : process_table_guests(3, Text(<<"2">>), sent)
    \/ process_contact(3, Contact(PhoneBare), 2)
    \/ \E t \in tasks : save_booking_resume(t)
    \/ \E sent \in BOOLEAN : fsm[3].state = NoState /\ start_review(3, sent)
    \/ \E sent \in BOOLEAN : process_review_rating(3, Text(RatingText(<<"5">>)), sent)
    \/ \E sent \in BOOLEAN : process_review_text(3, Text(<<"o", "k">>), sent, 1)
    \/ \E sent \in BOOLEAN : fsm[1].state = NoState /\ change_tables_start(1, sent)
    \/ \E sent \in BOOLEAN : process_tables_count(1, Text(<<"9">>), sent)
    \/ \E id \in Ids : process_confirm(1, id)
    \/ \E t \in tasks, edited \in BOOLEAN : process_confirm_resume(t, edited)
    \/ \E id \in Ids : process_reject(1, id)
    \/ \E t \in tasks, edited \in BOOLEAN : process_reject_resume(t, edited)
    \/ \E id \in Ids : process_cancel(1, id)
    \/ process_admin_comment(1, Text(<<"n", "o">>))
    \/ \E t \in tasks : process_admin_comment_resume(t)

SpecDisk == InitDisk /\ [][NextDisk]_vars

(***************************************************************************)
(* SpecReasons: two administrators who decide and cancel in any session    *)
(* state and keep answering the reason prompt.  load_data() finds two      *)
(* pending bookings of requester 3.  Every send succeeds; a suspended      *)
(* handler is resumed when its send returns, and an administrator at the   *)
(* reason prompt eventually types a reason.                                *)
(***************************************************************************)
load_data_reasons ==
    [bookings |-> (1 :> DeskBooking)
                  @@ (2 :> [DeskBooking EXCEPT !.type = "cottage", !.created_at = 2]),
     tables |-> [available |-> 10, total |-> 10],
     reviews |-> <<>>]

InitReasons ==
    /\ bookings_db = load_data_reasons.bookings
    /\ tables_db = load_data_reasons.tables
    /\ reviews_db = load_data_reasons.reviews
    /\ fsm = [u \in Users |-> Cleared]
    /\ tasks = {}
    /\ clock = 2
    /\ outbox = Recorded
    /\ disk = Untracked

Decide == \E u \in ADMINS, id \in Ids : process_confirm(u, id)
DecideResume == \E t \in tasks : process_confirm_resume(t, TRUE)
Reject == \E u \in ADMINS, id \in Ids : process_reject(u, id)
RejectResume == \E t \in tasks : process_reject_resume(t, TRUE)
Cancel == \E u \in ADMINS, id \in Ids : process_cancel(u, id)
Reason == \E u \in ADMINS : process_admin_comment(u, Text(<<"n", "o">>))
ReasonResume == \E t \in tasks : process_admin_comment_resume(t)

NextReasons ==
    \/ Decide
    \/ DecideResume
    \/ Reject
    \/ RejectResume
    \/ Cancel
    \/ Reason
    \/ ReasonResume

SpecReasons ==
    /\ InitReasons
    /\ [][NextReasons]_vars
    /\ WF_vars(DecideResume)
    /\ WF_vars(RejectResume)
    /\ WF_vars(Reason)
    /\ WF_vars(ReasonResume)

(***************************************************************************)
(* Properties of the booking store and the table ledger.                   *)
(***************************************************************************)
committedCount == Cardinality(BookingsWith("table", "confirmed"))

Is(id, type, status) ==
    /\ id \in DOMAIN bookings_db
    /\ bookings_db[id].type = type
    /\ bookings_db[id].status = status

\* a step keeps the booking stored under id: the record created at the same
\* time is still there
SameBooking(id) ==
    /\ id \in DOMAIN bookings_db
    /\ id \in DOMAIN bookings_db'
    /\ bookings_db'[id].created_at = bookings_db[id].created_at

\* C1: in every reachable state the table ledger satisfies
\* 0 <= available <= total.
C1_LedgerInRange ==
    /\ 0 <= tables_db.available
    /\ tables_db.available <= tables_db.total

\* C2: in every reachable state total - available equals the number of
\* bookings of type table with status confirmed.
C2_CommittedCount ==
    tables_db.total - tables_db.available = committedCount

\* C3: with two pending table bookings and available = 1, a confirm of one of
\* them makes it confirmed and takes available to 0, after which a confirm of
\* the other answers InsufficientCapacity and a second confirm of the same
\* booking answers AlreadyDecided; every step that confirms a table booking
\* starts with a free table and takes exactly one; available is never
\* negative.
C3_ConcurrentConfirm ==
    /\ [](tables_db.available >= 0)
    /\ [][bookings_db' # bookings_db =>
          \A id \in Ids :
            (SameBooking(id) /\ Is(id, "table", "pending")
                /\ bookings_db'[id].status = "confirmed")
            => /\ tables_db.available >= 1
               /\ tables_db'.available = tables_db.available - 1]_vars
    /\ [][tables_db.available = 1 =>
          \A a1 \in ADMINS, a2 \in ADMINS, b1 \in Ids, b2 \in Ids :
            (/\ Is(b1, "table", "pending") /\ Is(b2, "table", "pending")
             /\ process_confirm(a1, b1))
            => /\ bookings_db'[b1].status = "confirmed"
               /\ tables_db'.available = 0
               /\ (ConfirmAnswer(a2, b1))' = "AlreadyDecided"
               /\ b2 # b1 => /\ (ConfirmAnswer(a2, b2))' = "InsufficientCapacity"
                             /\ bookings_db'[b2].status = "pending"]_vars

\* the first of two confirms has taken the last table and is at its
\* suspension point while the other table booking is still pending
C3_Witness ==
    \E t \in tasks, b2 \in Ids :
        /\ t.h = "process_confirm"
        /\ Is(t.bid, "table", "confirmed")
        /\ b2 # t.bid
        /\ Is(b2, "table", "pending")
        /\ tables_db = [total |-> 1, available |-> 0]

\* C4: no two cottage bookings for the same calendar date are both in status
\* confirmed.
C4_OneConfirmedCottagePerDate ==
    \A i \in BookingsWith("cottage", "confirmed"),
       j \in BookingsWith("cottage", "confirmed") :
        i # j => strptime(bookings_db[i].date) # strptime(bookings_db[j].date)

InRange(text) ==
    /\ strptime(text) # ValueError
    /\ toordinal(strptime(text)) >= toordinal(today)
    /\ toordinal(strptime(text)) - toordinal(today) <= 365

CottageDateFree(text) ==
    \A id \in BookingsWith("cottage", "confirmed") :
        strptime(bookings_db[id].date) # strptime(text)

\* C5: the cottage date step takes a date within range on to the party-size
\* step iff no confirmed cottage booking occupies that calendar date, however
\* the date is typed; otherwise the session stays in the date step.
C5_CottageDateStep ==
    [][\A u \in Users, m \in SpecDates :
          (/\ fsm[u].state = "waiting_for_cottage_date"
           /\ m.text # BtnCancel
           /\ InRange(m.text)
           /\ process_cottage_date(u, m, TRUE))
          => IF CottageDateFree(m.text)
             THEN fsm'[u].state = "waiting_for_cottage_guests"
             ELSE fsm'[u] = fsm[u]]_vars

\* C6: in every reachable state at most one booking is pending for a given
\* requester, calendar date and resource type.
C6_OnePendingPerKey ==
    \A i \in DOMAIN bookings_db, j \in DOMAIN bookings_db :
        (/\ i # j
         /\ bookings_db[i].status = "pending" /\ bookings_db[j].status = "pending"
         /\ bookings_db[i].user_id = bookings_db[j].user_id
         /\ bookings_db[i].type = bookings_db[j].type)
        => strptime(bookings_db[i].date) # strptime(bookings_db[j].date)

StatusEdges ==
    {<<"pending", "confirmed">>, <<"pending", "rejected">>, <<"confirmed", "rejected">>}

\* C7: the status of a booking changes only along pending -> confirmed,
\* pending -> rejected and confirmed -> rejected, where a booking is the record
\* stored at one creation time; a confirm or a reject of a booking that is not
\* pending answers AlreadyDecided, and such a click changes neither the store
\* nor the ledger.
C7_StatusTransitions ==
    /\ [][bookings_db' # bookings_db =>
          \A id \in Ids :
            (SameBooking(id) /\ bookings_db'[id].status # bookings_db[id].status)
            => <<bookings_db[id].status, bookings_db'[id].status>> \in StatusEdges]_vars
    /\ [](\A u \in ADMINS, id \in DOMAIN bookings_db :
            bookings_db[id].status # "pending"
            => /\ ConfirmAnswer(u, id) = "AlreadyDecided"
               /\ RejectAnswer(u, id) = "AlreadyDecided")
    /\ [][\A u \in ADMINS, id \in Ids :
            (\/ ConfirmAnswer(u, id) = "AlreadyDecided" /\ process_confirm(u, id)
             \/ RejectAnswer(u, id) = "AlreadyDecided" /\ process_reject(u, id))
            => UNCHANGED <<bookings_db, tables_db>>]_vars

\* a cancelled booking and a confirmed one are in the store, the reason step of
\* the cancellation is at its suspension point, and both refuse a new decision
C7_Witness ==
    \E t \in tasks, j \in DOMAIN bookings_db :
        /\ t.h = "process_admin_comment"
        /\ t.bid \in DOMAIN bookings_db
        /\ bookings_db[t.bid].status = "rejected"
        /\ bookings_db[j].status = "confirmed"
        /\ ConfirmAnswer(t.user, t.bid) = "AlreadyDecided"
        /\ RejectAnswer(t.user, j) = "AlreadyDecided"

\* C8: with available = 0 a confirm of a pending table booking answers
\* InsufficientCapacity; no step taken with available = 0 confirms a table
\* booking or starts a confirmation notice for one, and the refused click
\* changes neither the booking nor the ledger.
C8_ConfirmWithoutCapacity ==
    /\ [](\A u \in ADMINS, id \in Ids :
            Is(id, "table", "pending") /\ tables_db.available = 0
            => ConfirmAnswer(u, id) = "InsufficientCapacity")
    /\ [][tables_db.available = 0 =>
          \A id \in Ids :
            SameBooking(id) /\ Is(id, "table", "pending")
            => /\ bookings_db'[id].status # "confirmed"
               /\ \A t \in tasks' \ tasks :
                    ~(t.h = "process_confirm" /\ t.bid = id)]_vars
    /\ [][\A u \in ADMINS, id \in Ids :
            ConfirmAnswer(u, id) = "InsufficientCapacity" /\ process_confirm(u, id)
            => UNCHANGED <<bookings_db, tables_db, tasks>>]_vars

\* a table booking is pending, no table is free and nothing is in flight: a
\* confirm click here is refused and leaves this state as it is
C8_Witness ==
    \E u \in ADMINS, id \in Ids :
        /\ Is(id, "table", "pending")
        /\ tables_db.available = 0
        /\ tasks = {}
        /\ ConfirmAnswer(u, id) = "InsufficientCapacity"

\* C9: the reason step of a cancellation of a confirmed table booking raises
\* available by exactly 1 and makes the booking rejected, whichever
\* administrator supplies the reason; a reason step, a reject and a cancel on a
\* booking already rejected leave the store and the ledger unchanged.
C9_CancelReleasesOnce ==
    /\ [][bookings_db' # bookings_db =>
          \A id \in Ids :
            (SameBooking(id) /\ Is(id, "table", "confirmed")
                /\ bookings_db'[id].status # "confirmed")
            => /\ bookings_db'[id].status = "rejected"
               /\ tables_db' = [tables_db EXCEPT !.available = @ + 1]]_vars
    /\ [][\A u \in ADMINS, m \in ReasonMessages :
            (/\ fsm[u].state = "waiting_for_admin_comment"
             /\ process_admin_comment(u, m))
            => LET id == fsm[u].data.booking_id
               IN  /\ Is(id, "table", "confirmed")
                      => /\ bookings_db'[id].status = "rejected"
                         /\ tables_db' = [tables_db EXCEPT !.available = @ + 1]
                   /\ (id \in DOMAIN bookings_db /\ bookings_db[id].status = "rejected")
                      => UNCHANGED <<bookings_db, tables_db>>]_vars
    /\ [](\A u \in ADMINS, id \in DOMAIN bookings_db :
            bookings_db[id].status = "rejected"
            => /\ RejectAnswer(u, id) = "AlreadyDecided"
               /\ CancelAnswer(u, id) = "AlreadyDecided")

\* two administrators started cancelling the same confirmed table booking: the
\* reason of one has released its table, the other is still at the reason step
C9_Witness ==
    \E t \in tasks, a2 \in ADMINS :
        /\ t.h = "process_admin_comment"
        /\ a2 # t.user
        /\ Is(t.bid, "table", "rejected")
        /\ fsm[a2].state = "waiting_for_admin_comment"
        /\ fsm[a2].data.booking_id = t.bid
        /\ bookings_db[t.bid].created_at = 1
        /\ clock = 1
        /\ tables_db = [total |-> 10, available |-> 10]

\* C10: a resize to n is refused, with the ledger unchanged and the session
\* still at the table-count step, when n < 1 or n is below the number of
\* confirmed table bookings; otherwise total becomes n and available becomes n
\* minus the number of confirmed table bookings.
C10_Resize ==
    [][\A u \in ADMINS, m \in CountMessages :
          (/\ fsm[u].state = "waiting_for_tables_count"
           /\ isdigit(m.text)
           /\ process_tables_count(u, m, TRUE))
          => IF int(m.text) < 1 \/ int(m.text) < committedCount
             THEN UNCHANGED tables_db /\ fsm'[u] = fsm[u]
             ELSE tables_db' = [total |-> int(m.text),
                                available |-> int(m.text) - committedCount]]_vars

(***************************************************************************)
(* Properties of decisions, reasons and sessions.                          *)
(***************************************************************************)
\* a booking record without its status
Unstatused(booking) == [booking EXCEPT !.status = "any"]

\* C15: a booking's status becomes rejected only in a reason step, that is
\* when an administrator whose session names the booking supplies the reason
\* text; no other step rejects a booking.
C15_RejectedOnlyWithReason ==
    [][bookings_db' # bookings_db =>
         \A id \in DOMAIN bookings_db :
            ( /\ SameBooking(id)
              /\ bookings_db[id].status # "rejected"
              /\ bookings_db'[id].status = "rejected" )
            => \E u \in ADMINS, m \in ReasonMessages :
                  /\ "booking_id" \in DOMAIN fsm[u].data
                  /\ fsm[u].data.booking_id = id
                  /\ process_admin_comment(u, m)]_vars

\* C18: when the edit of the decision message fails while a reject decision
\* is processed for an administrator whose session is not idle, that
\* session is idle when the processing ends.
C18_FaultLeavesIdle ==
    [][\A t \in tasks :
          (fsm[t.user].state # NoState /\ process_reject_resume(t, FALSE))
          => fsm'[t.user] = Cleared]_vars

\* C20: a step never overwrites or removes a stored booking: every id of the
\* store stays in the store and its fields other than status never change.
C20_NeverOverwritten ==
    [][bookings_db' # bookings_db =>
         \A id \in DOMAIN bookings_db :
            /\ id \in DOMAIN bookings_db'
            /\ Unstatused(bookings_db'[id]) = Unstatused(bookings_db[id])]_vars

(***************************************************************************)
(* Properties of access, notifications and unknown ids.                    *)
(***************************************************************************)
\* C11: every administrator operation attempted by an identity outside the
\* administrator set (the four decision and info buttons, the resize button
\* and the cancel-booking button) is answered with access denied.
C11_AccessDenied ==
    \A u \in Users \ ADMINS :
        /\ \A id \in Ids :
              /\ ConfirmAnswer(u, id) = "AccessDenied"
              /\ RejectAnswer(u, id) = "AccessDenied"
              /\ CancelAnswer(u, id) = "AccessDenied"
              /\ InfoAnswer(u, id) = "AccessDenied"
        /\ Handler(fsm[u].state, Text(BtnChangeTables)) = "change_tables_start"
              => ChangeTablesAnswer(u) = "AccessDenied"
        /\ Handler(fsm[u].state, Text(BtnCancelBooking)) = "cancel_booking_start"
              => CancelStartAnswer(u) = "AccessDenied"

\* the notifications of one kind recorded for one requester and booking
Notices(to, kind, bid) ==
    { n \in DOMAIN outbox.sent : n.to = to /\ n.kind = kind /\ n.bid = bid }

\* C16: for every booking its requester is sent at most one confirmation
\* notification and at most one rejection notification.
C16_AtMostOneNotice ==
    \A id \in DOMAIN bookings_db, kind \in {"confirmed", "rejected"} :
        LET N == Notices(bookings_db[id].user_id, kind, id)
        IN  /\ Cardinality(N) <= 1
            /\ \A n \in N : outbox.sent[n] <= 1

\* C17: when a confirmation's delivery to the administrator (the edit of the
\* decision message) has been attempted, failed or not, the requester's
\* notification is attempted too, and the confirmation is not rolled back.
C17_FailedEditStillNotifies ==
    [][\A t \in tasks, edited \in BOOLEAN :
          process_confirm_resume(t, edited)
          => /\ Notice(t.to, "confirmed", t.bid, None) \in DOMAIN outbox'.sent
             /\ UNCHANGED <<bookings_db, tables_db>>]_vars

\* C19: a confirm, reject, cancel or info token of an administrator that
\* names an id not in the store is answered NotFound, and the step that
\* processes it changes no booking, no ledger value and no session.
C19_UnknownIdNotFound ==
    /\ [](\A u \in ADMINS, id \in Ids \ DOMAIN bookings_db :
            /\ ConfirmAnswer(u, id) = "NotFound"
            /\ RejectAnswer(u, id) = "NotFound"
            /\ CancelAnswer(u, id) = "NotFound"
            /\ InfoAnswer(u, id) = "NotFound")
    /\ [][\A u \in ADMINS, id \in Ids \ DOMAIN bookings_db :
            ( \/ process_confirm(u, id)
              \/ process_reject(u, id)
              \/ process_cancel(u, id)
              \/ show_booking_info(u, id) )
            => UNCHANGED <<bookings_db, tables_db, fsm, reviews_db>>]_vars

\* an administrator in the middle of a conversation, a confirmed booking in
\* the store and an id that is not in the store
C19_Witness ==
    /\ \E u \in ADMINS : fsm[u].state # NoState
    /\ \E id \in DOMAIN bookings_db : bookings_db[id].status = "confirmed"
    /\ Ids \ DOMAIN bookings_db # {}

(***************************************************************************)
(* Properties of the cancel input and of input validation.                 *)
(***************************************************************************)
\* C12: in every non-idle conversation state the cancel input is answered
\* as a cancellation by the handler in charge of it.
C12_CancelHasPriority ==
    \A u \in Users :
        fsm[u].state # NoState => StepAnswer(u, Text(BtnCancel)) = "cancelled"

\* C13: a step that handles the cancel input of a user in a non-idle state
\* creates no booking and no review, changes no booking's status and leaves
\* the ledger unchanged.
C13_CancelChangesNothing ==
    [][\A u \in Users :
          ( /\ fsm[u].state # NoState
            /\ \E sent \in BOOLEAN, id \in Ids : Message(u, Text(BtnCancel), sent, id) )
          => UNCHANGED <<bookings_db, tables_db, reviews_db>>]_vars

\* the answers of the date, party-size and contact steps to an input that
\* fails validation
ValidationFailed ==
    {"fault", "bad_format", "past", "too_far", "unavailable", "not_a_number",
     "out_of_range", "too_short"}

\* C14: an input that fails validation in a date, party-size or contact
\* step, and whose re-prompt can be sent, leaves the session in the same
\* state with the same draft and creates no booking.
C14_InvalidInputReprompts ==
    [][\A u \in Users : \A m \in GuestInputs(fsm[u].state) :
          ( /\ fsm[u].state \in BookingSteps
            /\ StepAnswer(u, m) \in ValidationFailed
            /\ \E id \in Ids : Message(u, m, TRUE, id) )
          => fsm'[u] = fsm[u] /\ bookings_db' = bookings_db]_vars

(***************************************************************************)
(* Properties of the ledger's frame, of reviews and of stored fields.      *)
(***************************************************************************)
\* C27: a step changes the ledger only when it confirms a pending table
\* booking, cancels a confirmed table booking at the reason step, or
\* resizes; creations, rejections of pending bookings, cottage decisions
\* and reviews leave total and available unchanged.
C27_LedgerFrame ==
    [][tables_db' # tables_db =>
         \/ \E u \in ADMINS, id \in Ids :
               Is(id, "table", "pending") /\ process_confirm(u, id)
         \/ \E u \in ADMINS, m \in ReasonMessages :
               /\ "booking_id" \in DOMAIN fsm[u].data
               /\ Is(fsm[u].data.booking_id, "table", "confirmed")
               /\ process_admin_comment(u, m)
         \/ \E u \in ADMINS, m \in CountMessages, sent \in BOOLEAN :
               process_tables_count(u, m, sent)]_vars

\* the reviews a step writes
WrittenReviews ==
    { id \in DOMAIN reviews_db' :
        id \notin DOMAIN reviews_db \/ reviews_db'[id] # reviews_db[id] }

\* C21: whenever a step creates a review record, its author has a booking
\* in status confirmed at that moment.
C21_ReviewerHasConfirmed ==
    [][reviews_db' # reviews_db =>
         \A id \in WrittenReviews : has_confirmed_bookings(reviews_db'[id].user_id)]_vars

\* C22: every stored booking's phone is a digit-only string of at least 11
\* digits.
C22_PhoneNormalized ==
    \A id \in DOMAIN bookings_db :
        isdigit(bookings_db[id].phone) /\ Len(bookings_db[id].phone) >= 11

\* the party-size bound of a resource type
GuestBound(type) == IF type = "cottage" THEN 20 ELSE 10

\* C25: every stored booking's party size is within the bound of its own
\* resource type, 1..20 for a cottage and 1..10 for a table.
C25_PartySizeInBound ==
    \A id \in DOMAIN bookings_db :
        /\ bookings_db[id].guests >= 1
        /\ bookings_db[id].guests <= GuestBound(bookings_db[id].type)

\* a table booking is stored, and the requester is in the table flow again
\* while the session still holds the draft of an abandoned cottage flow
\* with a party size beyond the table bound
C25_Witness ==
    /\ \E id \in DOMAIN bookings_db : bookings_db[id].type = "table"
    /\ \E u \in Users :
          /\ fsm[u].state \in {"waiting_for_table_date", "waiting_for_table_guests"}
          /\ {"guests", "booking_type"} \subseteq DOMAIN fsm[u].data
          /\ fsm[u].data.booking_type = "cottage"
          /\ fsm[u].data.guests > GuestBound("table")

(***************************************************************************)
(* Properties of persistence.                                              *)
(***************************************************************************)
\* a step stores a new booking under id
Created(id) ==
    /\ id \in DOMAIN bookings_db'
    /\ id \notin DOMAIN bookings_db \/ ~SameBooking(id)

\* a step moves the booking under id from one status to another
Moves(id, from, to) ==
    /\ SameBooking(id)
    /\ bookings_db[id].status = from
    /\ bookings_db'[id].status = to

\* a step suspends handler h on its sends for booking id
Suspends(h, id) == \E t \in tasks' \ tasks : t.h = h /\ t.bid = id

\* the notifications a step attempts
NewNotices ==
    { n \in DOMAIN outbox'.sent :
        n \notin DOMAIN outbox.sent \/ outbox'.sent[n] > outbox.sent[n] }

\* C23: while the data file is unwritable, a step that creates, confirms,
\* rejects, cancels, resizes or writes a review keeps its in-memory change
\* (save_data is called with it and the file stays as it was), and the
\* operation goes on: the administrators are notified of a creation and of
\* a review, a decision goes on to its sends (a rejection either to the
\* edit of the decision message, or, at the reason step, to the requester's
\* notification), and the session of a resize or review is reset.
C23_SaveFailureKeepsGoing ==
    [][~disk.writable =>
         /\ (bookings_db' # bookings_db \/ tables_db' # tables_db
                \/ reviews_db' # reviews_db)
              => disk' = [disk EXCEPT !.asked = Memory] /\ disk'.data # Memory
         /\ \A id \in Ids :
              /\ Created(id)
                   => /\ \A a \in ADMINS :
                            Notice(a, "new_booking", id, None) \in NewNotices
                      /\ Suspends("_save_booking", id)
              /\ Moves(id, "pending", "confirmed") => Suspends("process_confirm", id)
              /\ \A from \in {"pending", "confirmed"} :
                   Moves(id, from, "rejected")
                     => \/ Suspends("process_reject", id)
                        \/ /\ \E n \in NewNotices :
                                 n.kind = "rejected" /\ n.bid = id
                           /\ Suspends("process_admin_comment", id)
         /\ tables_db'.total # tables_db.total
              => \E u \in ADMINS : fsm[u].state # NoState /\ fsm'[u] = Cleared
         /\ \A id \in WrittenReviews :
              /\ fsm'[reviews_db'[id].user_id] = Cleared
              /\ (\E m \in {Text(<<"o", "k">>)} :
                    process_review_text(reviews_db'[id].user_id, m, TRUE, id))
                   => \A a \in ADMINS :
                          Notice(a, "new_review", id, None) \in NewNotices]_vars

\* the file is unwritable and lacks a booking of which the administrators
\* have been notified, and a review that was written
C23_Witness ==
    /\ ~disk.writable
    /\ \E n \in DOMAIN outbox.sent :
          n.kind = "new_booking" /\ n.bid \notin DOMAIN disk.data.bookings
    /\ reviews_db # <<>> /\ disk.data.reviews = <<>>
    /\ tables_db.total # disk.data.tables.total

\* C24: save_data has been called with the change before a notification
\* of it is attempted.  A step that notifies or that suspends a handler on
\* its sends has called save_data with the store as it is then; the booking
\* of a creation notice and the review of a review notice are in that data,
\* the booking of a rejection notice is rejected in it, and the handler
\* suspended by a confirmation has saved the booking as confirmed.  The
\* requester's confirmation notice is sent only by such a handler when it
\* is resumed.
C24_SavedBeforeNotified ==
    [][/\ (outbox' # outbox \/ tasks' \ tasks # {}) => disk'.asked = Memory
       /\ \A t \in tasks' \ tasks :
            t.h = "process_confirm"
              => disk'.asked.bookings[t.bid].status = "confirmed"
       /\ \A n \in NewNotices :
            /\ n.kind = "new_booking" => n.bid \in DOMAIN disk'.asked.bookings
            /\ n.kind = "confirmed"
                 => \E t \in tasks \ tasks' :
                       t.h = "process_confirm" /\ t.bid = n.bid /\ t.to = n.to
            /\ n.kind = "rejected"
                 => disk'.asked.bookings[n.bid].status = "rejected"
            /\ n.kind = "new_review" => n.bid \in DOMAIN disk'.asked.reviews]_vars

\* notifications of a creation, a confirmation and a rejection have all
\* been attempted
C24_Witness ==
    \A kind \in {"new_booking", "confirmed", "rejected"} :
        \E n \in DOMAIN outbox.sent : n.kind = kind

(***************************************************************************)
(* Properties of the reason conversation.                                  *)
(***************************************************************************)
\* a rejection notification for the booking under id has been attempted
RejectionNotified(id) ==
    \E n \in DOMAIN outbox.sent : n.kind = "rejected" /\ n.bid = id

\* C26: every booking whose status is rejected is eventually followed by a
\* rejection notification attempt to its requester.
C26_RejectedLeadsToNotice ==
    \A id \in Ids :
        (id \in DOMAIN bookings_db /\ bookings_db[id].status = "rejected")
            ~> RejectionNotified(id)

====
